---- MODULE Spec2Model ----
(***************************************************************************)
(* SpeechDialogueFactory: the structured generation client (utils/llm.py), *)
(* the shard dispatcher of the sharded speech evaluators                   *)
(* (evaluator/speech/*_evaluator.py) and the batch pipeline orchestrator   *)
(* (speech_dialogue_factory.py), each as its own specification over its    *)
(* own group of variables.                                                 *)
(***************************************************************************)
EXTENDS Integers, Sequences, FiniteSets, TLC

VARIABLES
    \* ---- LLM.generate (utils/llm.py) ----
    g_cfg,              \* inference_mode, fast_mode, json_model given, prompts, backend outcomes
    g_pc,               \* position inside generate
    g_i,                \* loop index of generate_api
    success_results,    \* generate_vllm: list of (index, result)
    failed_inputs,      \* generate_vllm: indices waiting for guided decoding
    responses,
    success_indices,
    failed_indices,
    unguided_sub,       \* prompt indices submitted to unguided decoding, in order
    guided_sub,         \* prompt indices submitted to guided decoding, in order
    scenarios,          \* what generate_scenario_with_user_input returned
    \* ---- sharded evaluator evaluate() ----
    d_cfg,              \* evaluator class, n_gpus, num_workers
    d_pc,
    d_dialogues,        \* the batch handed to evaluate
    d_epoch,            \* number of the current evaluate call
    d_dir,              \* evaluation_temp_dir exists
    d_files,            \* files of evaluation_temp_dir
    chunk_size,
    dialogue_chunks,
    processes,          \* shards whose process is still in the list polled
    d_status,           \* return code of every shard whose process has ended
    exit_order,         \* the shards in the order their processes ended
    commands,           \* per shard: input path, output path, device
    final_dialogues,
    \* ---- SpeechDialogueFactory.generate_batched_dialogues ----
    p_cfg,              \* lazy_load, shared temp dir, the prompts' fates
    p_pc,
    ckpt,               \* intermediate_dir: stage index -> saved batch
    start_step,
    p_i,                \* next stage index of the loop
    dialogues,
    last_process_type,
    llm_loaded,
    speech_init,        \* speech modules initialized in this process
    tmp_dir,            \* the evaluators' temp directory exists
    executed,           \* stages executed by the current invocation, in order
    loaded_from,        \* checkpoint index the invocation loaded, or -1
    start_ckpts,        \* stage indices with a checkpoint when the invocation began
    saved,              \* generated_dialogues/dialogue_N files
    task_report,
    num_dialogues,      \* len(prompts) of the current invocation
    prompts_edited,     \* the prompt file was replaced by a shorter one
    corrupt,            \* checkpoint files that cannot be unpickled
    abort_cause,        \* why the current invocation raised
    unload_calls,       \* calls of llm.unload() made by the current run
    init_calls,         \* calls of module.initialize() made by the current run
    \* ---- generate_sample_dialogue on the same factory ----
    process_callback,   \* whether the caller passed a callback
    events,             \* the messages put on the caller's queue
    finished_fields,    \* the list the run appends the finished fields to
    sample_calls,       \* calls made on this factory so far
    read_upto,          \* how many messages the observer took off the queue
    updates,            \* the messages of its last reading, as it saw them
    \* ---- one stage module called on a batch ----
    s_stage,            \* index of the stage called
    s_pc,
    s_in,               \* the batch passed to generate / evaluate
    s_out,              \* the batch it returned
    \* ---- the TTS worker process on one shard ----
    t_pc,
    t_in,               \* the input snapshot
    t_i,                \* loop index of generate
    successed_dialogues,
    t_written,          \* whether the output snapshot exists
    t_out               \* the content of the output snapshot

genvars  == <<g_cfg, g_pc, g_i, success_results, failed_inputs, responses,
              success_indices, failed_indices, unguided_sub, guided_sub>>
scenvars == <<scenarios>>
dispvars == <<d_cfg, d_pc, d_dialogues, d_epoch, d_dir, d_files, chunk_size,
              dialogue_chunks, processes, d_status, exit_order, commands,
              final_dialogues>>
pipevars == <<p_cfg, p_pc, ckpt, start_step, p_i, dialogues, last_process_type,
              llm_loaded, speech_init, tmp_dir, executed, loaded_from,
              start_ckpts, saved, task_report, num_dialogues, prompts_edited,
              corrupt, abort_cause, unload_calls, init_calls>>
samplevars == <<process_callback, events, finished_fields, sample_calls,
                read_upto, updates>>
stagevars == <<s_stage, s_pc, s_in, s_out>>
ttsvars == <<t_pc, t_in, t_i, successed_dialogues, t_written, t_out>>
vars     == <<genvars, scenvars, dispvars, pipevars, samplevars, stagevars,
              ttsvars>>

\* ---------------------------------------------------------------------------
\* Bounds
\* ---------------------------------------------------------------------------
MaxPrompts == 3
MaxItems == 5
MaxGpus == 2
MaxWorkers == 2
MaxDialogues == 2
MaxDispatches == 2
MaxBatch == 3
MaxPlanItems == 10
MaxSampleCalls == 2

None == "None"

Range(s) == {s[k] : k \in 1..Len(s)}


RECURSIVE Flatten(_)
Flatten(ss) == IF ss = <<>> THEN <<>> ELSE Head(ss) \o Flatten(Tail(ss))

Min(a, b) == IF a < b THEN a ELSE b
Max(a, b) == IF a > b THEN a ELSE b

\* ===========================================================================
\* LLM.generate
\* ===========================================================================
ApiModes == {"api", "azure"}

\* Outcome of one backend request: the text validates against the schema, it
\* does not, or the request itself raises.
Outcomes(mode) == IF mode \in ApiModes THEN {"valid", "invalid", "exc"}
                  ELSE {"valid", "invalid"}

\* Without a schema the only thing generate_one_sample observes of a
\* completion is whether message.content is None (line 134 with line 170);
\* "none" is a completion that carries no content.
UnguidedOutcomes(mode, schema) ==
    IF mode \in ApiModes /\ ~schema THEN Outcomes(mode) \cup {"none"}
    ELSE Outcomes(mode)

N == Len(g_cfg.unguided)

\* The value produced for prompt i by the given decoding pass.
Parsed(i, pass) == <<i, pass>>

\* generate_vllm line 275: prompts are message lists built by the stages'
\* _construct_prompt, never None.
PromptIsNone(i) == FALSE

InitialFailedInputs(n) == SelectSeq([k \in 1..n |-> k - 1], PromptIsNone)

RECURSIVE InsertByIndex(_, _)
InsertByIndex(x, s) ==
    IF s = <<>> THEN <<x>>
    ELSE IF x[1] < Head(s)[1] THEN <<x>> \o s
         ELSE <<Head(s)>> \o InsertByIndex(x, Tail(s))

RECURSIVE SortRec(_, _)
SortRec(s, acc) ==
    IF s = <<>> THEN acc ELSE SortRec(Tail(s), InsertByIndex(Head(s), acc))

\* Variant: the merged results left in the order they were appended
SortByIndexNoSort(s) == s

\* success_results.sort(key=lambda x: x[0])
SortByIndex(s) == SortRec(s, <<>>)

\* failed_indices = [i for i in range(len(prompts)) if i not in success_indices]
Complement(n, succ) ==
    SelectSeq([k \in 1..n |-> k - 1], LAMBDA i : i \notin Range(succ))

\* Variant: the guided request issued whatever the unguided output was
ApiOneSampleAlwaysGuided(i) ==
    LET u == g_cfg.unguided[i + 1]
        g == g_cfg.guided[i + 1]
    IN  IF ~g_cfg.schema
        THEN [ret |-> CASE u = "exc"  -> "Raised"
                        [] u = "none" -> None
                        [] OTHER      -> Parsed(i, "raw"),
              ug |-> TRUE, gd |-> FALSE]
        ELSE [ret |-> IF g = "valid" THEN Parsed(i, "guided") ELSE None,
              ug |-> g_cfg.fast, gd |-> TRUE]

\* generate_one_sample(prompt i) of generate_api.  ret is the returned value,
\* None, or "Raised" when the call propagates an exception.
ApiOneSample(i) ==
    LET u == g_cfg.unguided[i + 1]
        g == g_cfg.guided[i + 1]
    IN  IF ~g_cfg.schema
        THEN \* lines 130-135: no try around the request; the content of
             \* the message is returned as it is
             [ret |-> CASE u = "exc"  -> "Raised"
                        [] u = "none" -> None
                        [] OTHER      -> Parsed(i, "raw"),
              ug |-> TRUE, gd |-> FALSE]
        ELSE IF g_cfg.fast /\ u = "exc"
        THEN \* lines 138-140: no try around the unguided request
             [ret |-> "Raised", ug |-> TRUE, gd |-> FALSE]
        ELSE IF g_cfg.fast /\ u = "valid"
        THEN [ret |-> Parsed(i, "unguided"), ug |-> TRUE, gd |-> FALSE]
        ELSE \* lines 151-164: guided request inside try
             [ret |-> CASE g = "valid"   -> Parsed(i, "guided")
                        [] g = "invalid" -> None
                        \* the handler formats `message`, which is unbound
                        \* unless the unguided pass assigned it
                        [] g = "exc"     -> IF g_cfg.fast THEN None ELSE "Raised",
              ug |-> g_cfg.fast, gd |-> TRUE]

GenConfigs ==
    { [mode |-> m, fast |-> f, schema |-> s, unguided |-> u, guided |-> g] :
        m \in {"api", "vllm"}, f \in BOOLEAN, s \in BOOLEAN,
        u \in UNION {[1..n -> {"valid", "invalid", "exc", "none"}] : n \in 0..MaxPrompts},
        g \in UNION {[1..n -> {"valid", "invalid", "exc"}] : n \in 0..MaxPrompts} }

InitGen ==
    /\ g_cfg \in { c \in GenConfigs :
                     /\ Len(c.unguided) = Len(c.guided)
                     /\ Range(c.unguided) \subseteq UnguidedOutcomes(c.mode, c.schema)
                     /\ Range(c.guided) \subseteq Outcomes(c.mode) }
    /\ g_pc = "start"
    /\ g_i = 0
    /\ success_results = <<>>
    /\ failed_inputs = <<>>
    /\ responses = <<>>
    /\ success_indices = <<>>
    /\ failed_indices = <<>>
    /\ unguided_sub = <<>>
    /\ guided_sub = <<>>
    /\ scenarios = <<>>

ParkedGen ==
    /\ g_cfg = [mode |-> "api", fast |-> FALSE, schema |-> FALSE,
                unguided |-> <<>>, guided |-> <<>>]
    /\ g_pc = "parked"
    /\ g_i = 0
    /\ success_results = <<>>
    /\ failed_inputs = <<>>
    /\ responses = <<>>
    /\ success_indices = <<>>
    /\ failed_indices = <<>>
    /\ unguided_sub = <<>>
    /\ guided_sub = <<>>
    /\ scenarios = <<>>

\* generate(): dispatch on inference_mode (lines 120-126)
Generate ==
    /\ g_pc = "start"
    /\ g_pc' = IF g_cfg.mode \in ApiModes THEN "api_loop" ELSE "vllm"
    /\ UNCHANGED <<g_cfg, g_i, success_results, failed_inputs, responses,
                   success_indices, failed_indices, unguided_sub, guided_sub>>

\* One iteration of the loop of generate_api (lines 169-175)
GenerateApiStep ==
    /\ g_pc = "api_loop"
    /\ g_i < N
    /\ LET o == ApiOneSample(g_i)
       IN  /\ unguided_sub' = IF o.ug THEN Append(unguided_sub, g_i) ELSE unguided_sub
           /\ guided_sub' = IF o.gd THEN Append(guided_sub, g_i) ELSE guided_sub
           /\ IF o.ret = "Raised"
              THEN /\ g_pc' = "raised"
                   /\ UNCHANGED <<g_i, responses, success_indices, failed_indices>>
              ELSE /\ g_pc' = "api_loop"
                   /\ g_i' = g_i + 1
                   /\ IF o.ret # None
                      THEN /\ responses' = Append(responses, o.ret)
                           /\ success_indices' = Append(success_indices, g_i)
                           /\ UNCHANGED failed_indices
                      ELSE /\ failed_indices' = Append(failed_indices, g_i)
                           /\ UNCHANGED <<responses, success_indices>>
    /\ UNCHANGED <<g_cfg, success_results, failed_inputs>>

\* generate_api returns (lines 177-181)
GenerateApiReturn ==
    /\ g_pc = "api_loop"
    /\ g_i = N
    /\ g_pc' = "done"
    /\ UNCHANGED <<g_cfg, g_i, success_results, failed_inputs, responses,
                   success_indices, failed_indices, unguided_sub, guided_sub>>

\* generate_vllm without a schema (lines 266-273)
VllmNoSchema ==
    /\ g_pc = "vllm"
    /\ ~g_cfg.schema
    /\ unguided_sub' = unguided_sub \o [k \in 1..N |-> k - 1]
    /\ responses' = [k \in 1..N |-> Parsed(k - 1, "raw")]
    /\ success_indices' = [k \in 1..N |-> k - 1]
    /\ failed_indices' = <<>>
    /\ g_pc' = "done"
    /\ UNCHANGED <<g_cfg, g_i, success_results, failed_inputs, guided_sub>>

\* generate_vllm with a schema, up to the guided pass (lines 275-295)
VllmUnguided ==
    /\ g_pc = "vllm"
    /\ g_cfg.schema
    /\ IF g_cfg.fast
       THEN /\ unguided_sub' = unguided_sub \o [k \in 1..N |-> k - 1]
            /\ success_results' =
                 LET ok == SelectSeq([k \in 1..N |-> k - 1],
                                     LAMBDA i : g_cfg.unguided[i + 1] = "valid")
                 IN  [k \in 1..Len(ok) |-> <<ok[k], Parsed(ok[k], "unguided")>>]
            /\ failed_inputs' =
                 SelectSeq([k \in 1..N |-> k - 1],
                           LAMBDA i : g_cfg.unguided[i + 1] # "valid")
       ELSE /\ failed_inputs' = InitialFailedInputs(N)
            /\ success_results' = <<>>
            /\ UNCHANGED unguided_sub
    /\ g_pc' = "vllm_guided"
    /\ UNCHANGED <<g_cfg, g_i, responses, success_indices, failed_indices,
                   guided_sub>>

\* Variant: the failed prompts submitted to the guided pass twice
GuidedBatchTwice(fi) == fi \o fi

\* run_guided_inference([prompts[i] for i in failed_inputs], json_model)
GuidedBatch(fi) == fi

\* generate_vllm: guided pass, merge and return (lines 297-316)
VllmGuided ==
    /\ g_pc = "vllm_guided"
    /\ guided_sub' = guided_sub \o GuidedBatch(failed_inputs)
    /\ LET ok  == SelectSeq(failed_inputs, LAMBDA i : g_cfg.guided[i + 1] = "valid")
           all == SortByIndex(success_results \o
                     [k \in 1..Len(ok) |-> <<ok[k], Parsed(ok[k], "guided")>>])
           si  == [k \in 1..Len(all) |-> all[k][1]]
       IN  /\ success_results' = all
           /\ responses' = [k \in 1..Len(all) |-> all[k][2]]
           /\ success_indices' = si
           /\ failed_indices' = Complement(N, si)
    /\ g_pc' = "done"
    /\ UNCHANGED <<g_cfg, g_i, failed_inputs, unguided_sub>>


\* ---- ScenarioGenerator.generate_scenario_with_user_input ----
RECURSIVE Dedup(_)
\* list({str(scenario): scenario for scenario in scenarios}.values()): a
\* dict keeps the position of the first occurrence of a key
Dedup(s) ==
    IF s = <<>> THEN <<>>
    ELSE LET r == Dedup(SubSeq(s, 1, Len(s) - 1))
         IN  IF s[Len(s)] \in Range(r) THEN r ELSE Append(r, s[Len(s)])

\* scenarios[i]["custom_prompt"] = custom_prompts[i] and
\* scenarios[i]["dialogue_language"] = dialogue_languages[i], for i over the
\* positions of the responses.  A prompt and a language are named by their
\* index in the caller's lists.
AttachUserInput(resp) ==
    [j \in 1..Len(resp) |-> [scenario          |-> resp[j],
                             custom_prompt     |-> j - 1,
                             dialogue_language |-> j - 1]]

\* lines 123-147, called with the schema DialogueScenario
GenerateScenarioWithUserInput ==
    /\ g_pc = "done"
    /\ g_cfg.schema
    /\ scenarios' = Dedup(AttachUserInput(responses))
    /\ g_pc' = "scenarios"
    /\ UNCHANGED <<g_cfg, g_i, success_results, failed_inputs, responses,
                   success_indices, failed_indices, unguided_sub, guided_sub>>

\* ===========================================================================
\* Sharded evaluators: IntelligibilityEvaluator / SpeechQualityEvaluator
\* ===========================================================================
EvaluatorKinds == {"intelligibility", "speech_quality"}


InputFile(i) == <<"input_dialogue", i>>
OutputFile(i) == <<"output_dialogue", i>>

Put(f, k, v) == [x \in (DOMAIN f) \cup {k} |-> IF x = k THEN v ELSE f[x]]
PutAll(f, g) == [x \in (DOMAIN f) \cup (DOMAIN g) |-> IF x \in DOMAIN g THEN g[x] ELSE f[x]]
Remove(f, ks) == [x \in (DOMAIN f) \ ks |-> f[x]]

\* total_num_processes = num_workers * n_gpus, clamped to num_dialogues
TotalNumProcesses(n, n_gpus, num_workers) ==
    IF num_workers * n_gpus > n THEN n ELSE num_workers * n_gpus

CeilDiv(a, b) == (a + b - 1) \div b

\* Variant: the quotient without the added one
ChunkSizeFloor(n, total) == Max(1, n \div total)

\* chunk_size = max(1, num_dialogues // total_num_processes + 1)
ChunkSize(n, total) == Max(1, (n \div total) + 1)

\* [dialogues[i : i + chunk_size] for i in range(0, num_dialogues, chunk_size)]
DialogueChunks(ds, cs) ==
    [k \in 1..CeilDiv(Len(ds), cs) |->
        SubSeq(ds, (k - 1) * cs + 1, Min(k * cs, Len(ds)))]

\* Variant: every shard on the first device
DeviceFirst(i, n_gpus) == 0

\* env["CUDA_VISIBLE_DEVICES"] = str(i % n_gpus)
Device(i, n_gpus) == i % n_gpus

\* What a worker writes for its shard in dispatch e: every record of the
\* input snapshot, evaluated, in order.
WorkerOutput(shard, e) == [k \in 1..Len(shard) |-> <<shard[k], e>>]

Shards == 0..(Len(dialogue_chunks) - 1)

DispConfigs ==
    [kind : EvaluatorKinds, n_gpus : 0..MaxGpus, num_workers : 1..MaxWorkers]

InitDisp ==
    /\ d_cfg \in DispConfigs
    /\ d_pc = "idle"
    /\ d_dialogues = <<>>
    /\ d_epoch = 0
    /\ d_dir = TRUE            \* __init__: os.makedirs(evaluation_temp_dir)
    /\ d_files = <<>>
    /\ chunk_size = 0
    /\ dialogue_chunks = <<>>
    /\ processes = {}
    /\ d_status = <<>>
    /\ exit_order = <<>>
    /\ commands = <<>>
    /\ final_dialogues = <<>>

ParkedDisp ==
    /\ d_cfg = [kind |-> "intelligibility", n_gpus |-> 0, num_workers |-> 1]
    /\ d_pc = "parked"
    /\ d_dialogues = <<>>
    /\ d_epoch = 0
    /\ d_dir = FALSE
    /\ d_files = <<>>
    /\ chunk_size = 0
    /\ dialogue_chunks = <<>>
    /\ processes = {}
    /\ d_status = <<>>
    /\ exit_order = <<>>
    /\ commands = <<>>
    /\ final_dialogues = <<>>

\* evaluate(): lines 72-97: sizes, chunks, and the input snapshots.
\* A zero divisor (no dialogues, or no GPU) and a missing temp directory
\* raise before any process is launched.
EvaluateBeginWith(max_items) ==
    /\ d_pc = "idle"
    /\ d_epoch < MaxDispatches
    /\ \E n \in 0..max_items :
        LET ds    == [k \in 1..n |-> k]
            total == TotalNumProcesses(n, d_cfg.n_gpus, d_cfg.num_workers)
        IN  /\ d_dialogues' = ds
            /\ d_epoch' = d_epoch + 1
            /\ final_dialogues' = <<>>
            /\ processes' = {}
            /\ d_status' = <<>>
            /\ exit_order' = <<>>
            /\ commands' = <<>>
            /\ IF total = 0
               THEN /\ d_pc' = "raised"
                    /\ chunk_size' = 0
                    /\ dialogue_chunks' = <<>>
                    /\ UNCHANGED d_files
               ELSE LET cs     == ChunkSize(n, total)
                        chunks == DialogueChunks(ds, cs)
                    IN  /\ chunk_size' = cs
                        /\ dialogue_chunks' = chunks
                        /\ IF d_dir
                           THEN /\ d_files' = PutAll(d_files,
                                       [f \in {InputFile(k - 1) : k \in 1..Len(chunks)}
                                           |-> chunks[f[2] + 1]])
                                /\ d_pc' = "prepared"
                           ELSE /\ d_pc' = "raised"
                                /\ UNCHANGED d_files
    /\ UNCHANGED <<d_cfg, d_dir>>

EvaluateBegin == EvaluateBeginWith(MaxItems)

\* lines 99-126: one command and one process per shard
Launch ==
    /\ d_pc = "prepared"
    /\ processes' = Shards
    /\ d_status' = <<>>
    /\ exit_order' = <<>>
    /\ commands' = [k \in 1..Len(dialogue_chunks) |->
                       [input  |-> InputFile(k - 1),
                        output |-> OutputFile(k - 1),
                        device |-> Device(k - 1, d_cfg.n_gpus)]]
    /\ d_pc' = "polling"
    /\ UNCHANGED <<d_cfg, d_dialogues, d_epoch, d_dir, d_files, chunk_size,
                   dialogue_chunks, final_dialogues>>

\* A worker process ends.  With status 0 it has written its output snapshot
\* (the save is the worker's last statement); otherwise it has not.
WorkerExit(i) ==
    /\ d_pc = "polling"
    /\ i \in Shards
    /\ i \notin DOMAIN d_status
    /\ \E rc \in {0, 1} :
        /\ d_status' = Put(d_status, i, rc)
        /\ exit_order' = Append(exit_order, i)
        /\ d_files' = IF rc = 0 /\ d_dir
                      THEN Put(d_files, OutputFile(i),
                               WorkerOutput(d_files[InputFile(i)], d_epoch))
                      ELSE d_files
    /\ UNCHANGED <<d_cfg, d_pc, d_dialogues, d_epoch, d_dir, chunk_size,
                   dialogue_chunks, processes, commands, final_dialogues>>

\* Variant: the wait given up after one pass
StillRunningNone(procs, status) == {}

\* processes.remove(p) for every p whose poll() is not None
StillRunning(procs, status) == {i \in procs : i \notin DOMAIN status}

\* One pass of the monitor loop (lines 129-135): the return code is logged
\* and the process dropped from the list; the loop ends when the list is empty.
Poll ==
    /\ d_pc = "polling"
    /\ processes # {}
    /\ processes' = StillRunning(processes, d_status)
    /\ d_pc' = IF processes' = {} THEN "merging" ELSE "polling"
    /\ UNCHANGED <<d_cfg, d_dialogues, d_epoch, d_dir, d_files, chunk_size,
                   dialogue_chunks, d_status, exit_order, commands, final_dialogues>>

\* Variant: the output files visited in the order the processes ended
OutputFilesByCompletion(n, order) == order

\* for output_file in output_files: the list built by enumerate(dialogue_shards)
OutputFilesOrder(n, order) == [k \in 1..n |-> k - 1]

\* lines 137-141: load every output snapshot in shard order
Merge ==
    /\ d_pc = "merging"
    /\ IF \A i \in Shards : OutputFile(i) \in DOMAIN d_files
       THEN /\ final_dialogues' =
                 LET order == OutputFilesOrder(Len(dialogue_chunks), exit_order)
                 IN  Flatten([k \in 1..Len(order) |-> d_files[OutputFile(order[k])]])
            /\ d_pc' = "merged"
       ELSE /\ d_pc' = "raised"
            /\ UNCHANGED final_dialogues
    /\ UNCHANGED <<d_cfg, d_dialogues, d_epoch, d_dir, d_files, chunk_size,
                   dialogue_chunks, processes, d_status, exit_order, commands>>

\* Variant: the directory left in place
DirAfterRmdirKept(exists) == exists

\* os.rmdir(self.evaluation_temp_dir)
DirAfterRmdir(exists) == FALSE

\* lines 143-153: remove the snapshots, remove the directory, return.
\* os.rmdir raises when the directory still holds a file.
Cleanup ==
    /\ d_pc = "merged"
    /\ LET left == Remove(d_files, {InputFile(i) : i \in Shards}
                                      \cup {OutputFile(i) : i \in Shards})
       IN  /\ d_files' = left
           /\ IF DOMAIN left = {}
              THEN d_dir' = DirAfterRmdir(d_dir) /\ d_pc' = "done"
              ELSE d_dir' = d_dir /\ d_pc' = "raised"
    /\ UNCHANGED <<d_cfg, d_dialogues, d_epoch, chunk_size, dialogue_chunks,
                   processes, d_status, exit_order, commands,
                   final_dialogues>>

\* The caller goes on: the same instance may be used again.
EvaluateEnd ==
    /\ d_pc \in {"done", "raised"}
    /\ d_pc' = "idle"
    /\ UNCHANGED <<d_cfg, d_dialogues, d_epoch, d_dir, d_files, chunk_size,
                   dialogue_chunks, processes, d_status, exit_order, commands,
                   final_dialogues>>

\* A new process constructs the evaluator: __init__ (lines 56-62)
Construct ==
    /\ d_pc = "idle"
    /\ d_epoch > 0
    /\ ~d_dir
    /\ d_dir' = TRUE
    /\ UNCHANGED <<d_cfg, d_pc, d_dialogues, d_epoch, d_files, chunk_size,
                   dialogue_chunks, processes, d_status, exit_order, commands,
                   final_dialogues>>



\* ===========================================================================
\* SpeechDialogueFactory.generate_batched_dialogues
\* ===========================================================================
\* pipelines (lines 305-339); stage i is Pipelines[i + 1]
Pipelines == <<
    [name |-> "ScenarioGenerator",           role |-> "generator", ptype |-> "content"],
    [name |-> "MetadataGenerator",           role |-> "generator", ptype |-> "content"],
    [name |-> "ScriptGenerator",             role |-> "generator", ptype |-> "content"],
    [name |-> "DialogueGenerator",           role |-> "generator", ptype |-> "content"],
    [name |-> "ConsistencyEvaluator",        role |-> "evaluator", ptype |-> "content"],
    [name |-> "CoherenceEvaluator",          role |-> "evaluator", ptype |-> "content"],
    [name |-> "NaturalnessEvaluator",        role |-> "evaluator", ptype |-> "content"],
    [name |-> "ContentQualityFilter",        role |-> "evaluator", ptype |-> "content"],
    [name |-> "TTS",                         role |-> "generator", ptype |-> "speech"],
    [name |-> "IntelligibilityEvaluator",    role |-> "evaluator", ptype |-> "speech"],
    [name |-> "SpeakerConsistencyEvaluator", role |-> "evaluator", ptype |-> "speech"],
    [name |-> "SpeechQualityEvaluator",      role |-> "evaluator", ptype |-> "speech"],
    [name |-> "SpeechQualityFilter",         role |-> "evaluator", ptype |-> "speech"] >>

NumStages == Len(Pipelines)
Stages == 0..(NumStages - 1)
StageIndexOf(name) == CHOOSE i \in Stages : Pipelines[i + 1].name = name

\* The modules the factory initializes only on demand under lazy_load
\* (__init__ lines 148-156)
LazyModules == {"TTS", "IntelligibilityEvaluator", "SpeakerConsistencyEvaluator",
                "SpeechQualityEvaluator"}

\* The field each stage writes (Dialogue, data_classes/dialogue.py)
FieldOf(name) ==
    CASE name = "ScenarioGenerator"           -> "scenario"
      [] name = "MetadataGenerator"           -> "metadata"
      [] name = "ScriptGenerator"             -> "script"
      [] name = "DialogueGenerator"           -> "conversation"
      [] name = "ConsistencyEvaluator"        -> "consistency_evaluation"
      [] name = "CoherenceEvaluator"          -> "coherence_evaluation"
      [] name = "NaturalnessEvaluator"        -> "naturalness_evaluation"
      [] name = "TTS"                         -> "dialogue_audio"
      [] name = "IntelligibilityEvaluator"    -> "intelligibility_evaluation"
      [] name = "SpeakerConsistencyEvaluator" -> "speaker_consistency_evaluation"
      [] name = "SpeechQualityEvaluator"      -> "speech_quality_evaluation"
      [] OTHER                                -> "none"

\* A prompt's fate says at which stage, if any, the record made from it is
\* lost: its structured generation fails there, or the filter there rejects
\* it.  Fate 10 is a conversation whose first two turns have one speaker,
\* which SpeakerConsistencyEvaluator skips.  NoFate: the record survives.
NoFate == NumStages
Fates == {NoFate, 0, 1, 3, 5, 7, 8, 10, 12}

NoId == <<>>

NewDialogue(k, fate) ==
    [src |-> k, fate |-> fate, fields |-> {"scenario"}, meta_from |-> {},
     dialogue_id |-> NoId]

\* Variant: the record rebuilt with the new field alone
SetFieldAlone(d, f) == [d EXCEPT !.fields = {f}]

SetField(d, f) == [d EXCEPT !.fields = @ \cup {f}]

\* ---- checkpoint file names: dialogues_step_{i}_{name}.pkl ----
\* str(i): the decimal digits of i
Digits(i) == IF i < 10 THEN <<i>> ELSE <<i \div 10, i % 10>>

RECURSIVE ParseInt(_)
\* int(x.split("_")[2])
ParseInt(ds) == IF ds = <<>> THEN 0
                ELSE ParseInt(SubSeq(ds, 1, Len(ds) - 1)) * 10 + ds[Len(ds)]

CheckpointName(i) == <<"dialogues", "step", Digits(i), Pipelines[i + 1].name>>

\* Order of two digit strings as Python compares str
LexLess(a, b) ==
    \/ \E k \in 1..Min(Len(a), Len(b)) :
          /\ \A j \in 1..(k - 1) : a[j] = b[j]
          /\ a[k] < b[k]
    \/ /\ Len(a) < Len(b)
       /\ \A j \in 1..Len(a) : a[j] = b[j]

\* Variant: the file names ordered by their step text as strings
LastStepFileLexicographic(names) ==
    CHOOSE f \in names : \A g \in names : g = f \/ LexLess(g[3], f[3])

\* sorted(intermediate_files, key=lambda x: int(x.split("_")[2]))[-1]
LastStepFile(names) ==
    CHOOSE f \in names : \A g \in names : ParseInt(g[3]) <= ParseInt(f[3])

\* start_step = last_step + 1
ResumeStep(last_step) == last_step + 1

\* ---- the stages ----
Raised == [raised |-> TRUE, batch |-> <<>>]
Returned(ds) == [raised |-> FALSE, batch |-> ds]

HasAll(d, fs) == fs \subseteq d.fields

KeepWrite(ds, i) ==
    LET kept == SelectSeq(ds, LAMBDA d : d.fate # i)
    IN  [k \in 1..Len(kept) |-> SetField(kept[k], FieldOf(Pipelines[i + 1].name))]

\* MetadataGenerator.generate: _construct_prompt rebinds created_prompts in
\* every iteration, so one prompt is issued, built from the last record; the
\* response is filled back into dialogues[0].  With no record the name is
\* unbound at the return.
MetadataGenerate(ds) ==
    IF ds = <<>> THEN Raised
    ELSE IF ds[Len(ds)].fate = 1 THEN Returned(<<>>)
    ELSE Returned(<< [SetField(ds[1], "metadata") EXCEPT !.meta_from = {ds[Len(ds)].src}] >>)

\* SpeakerConsistencyEvaluator.evaluate: a skipped record stays in the batch
\* without its evaluation
SpeakerConsistencyEvaluate(ds) ==
    [k \in 1..Len(ds) |->
        IF ds[k].fate = 10 THEN ds[k]
        ELSE SetField(ds[k], "speaker_consistency_evaluation")]

ContentFilterReads == {"conversation", "coherence_evaluation",
                       "consistency_evaluation", "naturalness_evaluation"}
SpeechFilterReads == {"speech_quality_evaluation", "intelligibility_evaluation",
                      "speaker_consistency_evaluation"}

\* Variant: the accepted records prepended to the result
FilterEvaluateReversed(ds, i, reads) ==
    LET kept == SelectSeq(ds, LAMBDA d : d.fate # i)
    IN  [raised |-> FALSE, batch |-> [k \in 1..Len(kept) |-> kept[Len(kept) + 1 - k]]]

\* ContentQualityFilter.evaluate / SpeechQualityFilter.evaluate: _is_valid
\* dereferences the evaluations it reads
FilterEvaluate(ds, i, reads) ==
    IF \E k \in 1..Len(ds) : ~HasAll(ds[k], reads) THEN Raised
    ELSE Returned(SelectSeq(ds, LAMBDA d : d.fate # i))

\* IntelligibilityEvaluator.evaluate / SpeechQualityEvaluator.evaluate as
\* the pipeline sees them: the division by total_num_processes raises on an
\* empty batch, the snapshots need the temp directory.
ShardedEvaluate(ds, i, dir_exists) ==
    IF ds = <<>> \/ ~dir_exists THEN Raised
    ELSE Returned(KeepWrite(ds, i))

\* ScenarioGenerator.generate(num_dialogues, dialogue_languages,
\* custom_prompts): one record per prompt whose generation succeeds, in
\* prompt order.
ScenarioGenerate(fates) ==
    LET all == [k \in 1..Len(fates) |-> NewDialogue(k - 1, fates[k])]
    IN  Returned(SelectSeq(all, LAMBDA d : d.fate # 0))

\* TTS.generate(dialogues): the records whose audio was synthesised, in
\* order, with dialogue_audio set.
TtsGenerate(ds) == Returned(KeepWrite(ds, 8))

\* The fields of a record that stage i dereferences (_construct_prompt,
\* _is_valid, evaluate_one_dialogue, evaluate_one_conversation)
StageReads(i) ==
    CASE i = 0  -> {}
      [] i = 1  -> {"scenario"}
      [] i = 2  -> {"scenario", "metadata"}
      [] i = 3  -> {"scenario", "metadata", "script"}
      [] i \in {4, 5, 6} -> {"scenario", "metadata", "script", "conversation"}
      [] i = 7  -> ContentFilterReads
      [] i = 8  -> {"scenario", "metadata", "conversation"}
      [] i = 9  -> {"scenario", "conversation", "dialogue_audio"}
      [] i = 10 -> {"conversation", "dialogue_audio"}
      [] i = 11 -> {"conversation", "dialogue_audio"}
      [] OTHER  -> SpeechFilterReads

\* Variant: ids taken from the position of the record's prompt
AssignIdsBySource(ds) == [k \in 1..Len(ds) |-> [ds[k] EXCEPT !.dialogue_id = Digits(ds[k].src)]]

\* Stage i applied to batch ds (module.generate / module.evaluate).  Stage 0
\* receives the scalar parameters.
StageFn(i, ds, fates, dirs) ==
    CASE i = 0  -> ScenarioGenerate(fates)
      [] i = 1  -> MetadataGenerate(ds)
      [] i = 7  -> FilterEvaluate(ds, 7, ContentFilterReads)
      [] i = 8  -> TtsGenerate(ds)
      [] i = 9  -> ShardedEvaluate(ds, 9, "intelligibility" \in dirs)
      [] i = 10 -> Returned(SpeakerConsistencyEvaluate(ds))
      [] i = 11 -> ShardedEvaluate(ds, 11, "speech_quality" \in dirs)
      [] i = 12 -> FilterEvaluate(ds, 12, SpeechFilterReads)
      [] OTHER  -> Returned(KeepWrite(ds, i))

\* dialogue.dialogue_id = str(i) for i, dialogue in enumerate(dialogues)
AssignIds(ds) == [k \in 1..Len(ds) |-> [ds[k] EXCEPT !.dialogue_id = Digits(k - 1)]]

\* Variant: the checkpoint holding the batch the stage received
SaveBatchInput(before, after) == before

\* Dialogue.save_batch_to_pickle(dialogues, ...): the batch the stage returned
SaveBatch(before, after) == after

\* The temp directories by evaluator; with the common default both
\* evaluators name one directory.
DirsAfterConstruct == {"intelligibility", "speech_quality"}
DirsAfterIntelligibility(dirs, same) ==
    IF same THEN {} ELSE dirs \ {"intelligibility"}
DirsAfterSpeechQuality(dirs, same) ==
    IF same THEN {} ELSE dirs \ {"speech_quality"}

PipeConfigs ==
    { [lazy_load |-> l, same_tmp |-> t, fates |-> f] :
        l \in BOOLEAN, t \in BOOLEAN,
        f \in UNION {[1..n -> Fates] : n \in 0..MaxDialogues} }

InitPipe ==
    /\ p_cfg \in PipeConfigs
    /\ p_pc = "off"
    /\ ckpt = <<>>
    /\ start_step = 0
    /\ p_i = 0
    /\ dialogues = <<>>
    /\ last_process_type = "content"
    /\ llm_loaded = FALSE
    /\ speech_init = {}
    /\ tmp_dir = {}
    /\ executed = <<>>
    /\ loaded_from = -1
    /\ start_ckpts = {}
    /\ saved = <<>>
    /\ task_report = <<>>
    /\ num_dialogues = 0
    /\ prompts_edited = FALSE
    /\ corrupt = {}
    /\ abort_cause = "none"
    /\ unload_calls = 0
    /\ init_calls = 0

ParkedPipe ==
    /\ p_cfg = [lazy_load |-> FALSE, same_tmp |-> FALSE, fates |-> <<>>]
    /\ p_pc = "parked"
    /\ ckpt = <<>>
    /\ start_step = 0
    /\ p_i = 0
    /\ dialogues = <<>>
    /\ last_process_type = "content"
    /\ llm_loaded = FALSE
    /\ speech_init = {}
    /\ tmp_dir = {}
    /\ executed = <<>>
    /\ loaded_from = -1
    /\ start_ckpts = {}
    /\ saved = <<>>
    /\ task_report = <<>>
    /\ num_dialogues = 0
    /\ prompts_edited = FALSE
    /\ corrupt = {}
    /\ abort_cause = "none"
    /\ unload_calls = 0
    /\ init_calls = 0

\* SpeechDialogueFactory.__init__ (lines 126-156) in a new process
ConstructFactory ==
    /\ p_pc = "off"
    /\ p_pc' = "constructed"
    /\ llm_loaded' = TRUE
    /\ speech_init' = IF p_cfg.lazy_load THEN {} ELSE LazyModules
    /\ tmp_dir' = DirsAfterConstruct
    /\ UNCHANGED <<p_cfg, ckpt, start_step, p_i, dialogues, last_process_type,
                   executed, loaded_from, start_ckpts, saved, task_report,
                   num_dialogues, prompts_edited, corrupt, abort_cause,
                   unload_calls, init_calls>>

\* prompts (lines 295-303): the lines of the prompt file, each repeated
\* num_dialogues_per_prompt times.  An edited file holds one prompt less.
Prompts ==
    IF prompts_edited THEN SubSeq(p_cfg.fates, 1, Len(p_cfg.fates) - 1)
    ELSE p_cfg.fates

\* Variant: the files that can be unpickled
IntermediateFilesReadable(files, bad) == files \ bad

\* intermediate_files = os.listdir(intermediate_dir)
IntermediateFiles(files, bad) == files

\* generate_batched_dialogues up to the loop (lines 294-371).
\* load_batch_from_pickle raises on a file that cannot be unpickled.
Invoke ==
    /\ p_pc = "constructed"
    /\ executed' = <<>>
    /\ num_dialogues' = Len(Prompts)
    /\ start_ckpts' = {StageIndexOf(f[4]) : f \in DOMAIN ckpt}
    /\ LET intermediate_files == IntermediateFiles(DOMAIN ckpt, corrupt)
       IN  IF intermediate_files # {}
           THEN LET last_step_file == LastStepFile(intermediate_files)
                    last_step == ParseInt(last_step_file[3])
                IN  IF last_step_file \in corrupt
                    THEN /\ p_pc' = "load_failed"
                         /\ abort_cause' = "load"
                         /\ UNCHANGED <<dialogues, start_step, p_i, loaded_from,
                                        last_process_type>>
                    ELSE /\ p_pc' = "running"
                         /\ dialogues' = ckpt[last_step_file]
                         /\ start_step' = ResumeStep(last_step)
                         /\ p_i' = ResumeStep(last_step)
                         /\ loaded_from' = last_step
                         \* pipelines[start_step-1][-1]
                         /\ last_process_type' =
                               Pipelines[(ResumeStep(last_step) - 1) + 1].ptype
                         /\ UNCHANGED abort_cause
           ELSE /\ p_pc' = "running"
                /\ dialogues' = <<>>
                /\ start_step' = 0
                /\ p_i' = 0
                /\ loaded_from' = -1
                /\ last_process_type' = "content"
                /\ UNCHANGED abort_cause
    /\ unload_calls' = 0
    /\ init_calls' = 0
    /\ UNCHANGED <<p_cfg, ckpt, llm_loaded, speech_init, tmp_dir, saved,
                   task_report, prompts_edited, corrupt>>

\* Variant: the release and reacquire cycle run whatever the setting
LazyLoadAlways(cfg) == TRUE

\* if self.lazy_load:
LazyLoad(cfg) == cfg.lazy_load

\* Variant: the LLM unloaded before every speech stage
TypeChangedOrSpeech(last, ptype) == ptype = "speech"

\* if last_process_type != process_type:
TypeChanged(last, ptype) == last # ptype

\* The head of an iteration (lines 377-382; 227-232 in
\* generate_sample_dialogue): the LLM is unloaded when the process type
\* changes, and the module of the stage is initialized.
Lifecycle(st) ==
    IF LazyLoad(p_cfg)
    THEN /\ llm_loaded' = IF TypeChanged(last_process_type, st.ptype) THEN FALSE
                          ELSE llm_loaded
         /\ unload_calls' = IF TypeChanged(last_process_type, st.ptype)
                            THEN unload_calls + 1 ELSE unload_calls
         /\ speech_init' = IF st.name \in LazyModules
                           THEN speech_init \cup {st.name} ELSE speech_init
         /\ init_calls' = init_calls + 1
         /\ last_process_type' = st.ptype
    ELSE UNCHANGED <<llm_loaded, unload_calls, speech_init, init_calls,
                     last_process_type>>

\* Variant: the checkpoint written although the stage raised
CheckpointsAfterRaiseSaved(c, name, batch) == Put(c, name, batch)

\* The save (lines 388-391) follows the stage call: an exception leaving the
\* call skips it.
CheckpointsAfterRaise(c, name, batch) == c

\* Variant: only the newest checkpoint kept
WriteCheckpointPruning(c, name, batch) == Put(<<>>, name, batch)

\* lines 388-391: the file of the stage is written into intermediate_dir
WriteCheckpoint(c, name, batch) == Put(c, name, batch)

\* One iteration of the loop (lines 374-395)
RunStage ==
    /\ p_pc = "running"
    /\ p_i < NumStages
    /\ LET st  == Pipelines[p_i + 1]
           out == StageFn(p_i, dialogues, Prompts, tmp_dir)
       IN  /\ Lifecycle(st)
           /\ executed' = Append(executed, p_i)
           /\ IF out.raised
              THEN /\ p_pc' = "aborted"
                   /\ abort_cause' = "stage"
                   /\ ckpt' = CheckpointsAfterRaise(ckpt, CheckpointName(p_i), dialogues)
                   /\ UNCHANGED <<dialogues, p_i, tmp_dir>>
              ELSE /\ p_pc' = "running"
                   /\ UNCHANGED abort_cause
                   /\ ckpt' = WriteCheckpoint(ckpt, CheckpointName(p_i),
                                            SaveBatch(dialogues, out.batch))
                   /\ dialogues' = out.batch
                   /\ p_i' = p_i + 1
                   /\ tmp_dir' = CASE p_i = 9  -> DirsAfterIntelligibility(tmp_dir, p_cfg.same_tmp)
                                   [] p_i = 11 -> DirsAfterSpeechQuality(tmp_dir, p_cfg.same_tmp)
                                   [] OTHER    -> tmp_dir
    /\ UNCHANGED <<p_cfg, start_step, loaded_from, start_ckpts, saved, task_report,
                   num_dialogues, prompts_edited, corrupt>>

\* A worker process of a sharded stage, or a backend request of a content
\* stage, fails and the stage raises.
RunStageFails ==
    /\ p_pc = "running"
    /\ p_i < NumStages
    /\ Pipelines[p_i + 1].name \notin {"ContentQualityFilter", "SpeechQualityFilter"}
    /\ LET st == Pipelines[p_i + 1]
       IN  /\ Lifecycle(st)
    /\ executed' = Append(executed, p_i)
    /\ p_pc' = "aborted"
    /\ abort_cause' = "environment"
    /\ UNCHANGED <<p_cfg, ckpt, start_step, p_i, dialogues, tmp_dir, loaded_from,
                   start_ckpts, saved, task_report, num_dialogues, prompts_edited,
                   corrupt>>

\* After the loop: ids, per-record files, task report (lines 397-418)
Finish ==
    /\ p_pc = "running"
    /\ p_i >= NumStages
    /\ dialogues' = AssignIds(dialogues)
    /\ saved' = PutAll(saved, [k \in 0..(Len(dialogues) - 1) |-> AssignIds(dialogues)[k + 1]])
    /\ task_report' = << [num_planned_dialogues |-> num_dialogues,
                          num_generated_dialogues |-> Len(dialogues)] >>
    /\ p_pc' = "done"
    /\ UNCHANGED <<p_cfg, ckpt, start_step, p_i, last_process_type, llm_loaded,
                   speech_init, tmp_dir, executed, loaded_from, start_ckpts,
                   num_dialogues, prompts_edited, corrupt, abort_cause,
                   unload_calls, init_calls>>

\* The process is gone: nothing of its memory is left, the files stay.
ProcessEnds ==
    /\ p_pc' = "off"
    /\ llm_loaded' = FALSE
    /\ speech_init' = {}
    /\ start_step' = 0
    /\ p_i' = 0
    /\ dialogues' = <<>>
    /\ last_process_type' = "content"
    /\ executed' = <<>>
    /\ loaded_from' = -1
    /\ start_ckpts' = {}
    /\ num_dialogues' = 0
    /\ abort_cause' = "none"
    /\ unload_calls' = 0
    /\ init_calls' = 0

\* The process is killed between two iterations, i.e. right after a
\* checkpoint was written (or before the first stage).
Crash ==
    /\ p_pc = "running"
    /\ ProcessEnds
    /\ UNCHANGED <<p_cfg, ckpt, tmp_dir, saved, task_report, prompts_edited, corrupt>>

\* The process ends after the call returned or raised.
Exit ==
    /\ p_pc \in {"done", "aborted", "load_failed"}
    /\ ProcessEnds
    /\ UNCHANGED <<p_cfg, ckpt, tmp_dir, saved, task_report, prompts_edited, corrupt>>


\* Between two invocations the prompt file is replaced by one of the same
\* name (hence the same task_id and task directory) holding one prompt less.
EditPrompts ==
    /\ p_pc = "off"
    /\ ~prompts_edited
    /\ Len(p_cfg.fates) >= 1
    /\ prompts_edited' = TRUE
    /\ UNCHANGED <<p_cfg, p_pc, ckpt, start_step, p_i, dialogues, last_process_type,
                   llm_loaded, speech_init, tmp_dir, executed, loaded_from,
                   start_ckpts, saved, task_report, num_dialogues, corrupt,
                   abort_cause, unload_calls, init_calls>>

\* The newest checkpoint file is damaged (a process killed inside
\* pickle.dump leaves it truncated).
CorruptCheckpoint ==
    /\ p_pc = "off"
    /\ DOMAIN ckpt # {}
    /\ corrupt = {}
    /\ corrupt' = {LastStepFile(DOMAIN ckpt)}
    /\ UNCHANGED <<p_cfg, p_pc, ckpt, start_step, p_i, dialogues, last_process_type,
                   llm_loaded, speech_init, tmp_dir, executed, loaded_from,
                   start_ckpts, saved, task_report, num_dialogues, prompts_edited,
                   abort_cause, unload_calls, init_calls>>

\* ===========================================================================
\* A stage module called on a batch (module.generate / module.evaluate)
\* ===========================================================================
\* The fields the stages before stage i have written
UpstreamFields(i) ==
    ({"scenario"} \cup {FieldOf(Pipelines[j + 1].name) : j \in 1..(i - 1)}) \ {"none"}

\* A record that reached stage i: its prompt's fate lies at i or later
StageRecord(k, fate, i) ==
    [src |-> k, fate |-> fate, fields |-> UpstreamFields(i),
     meta_from |-> IF i > 1 THEN {k} ELSE {}, dialogue_id |-> NoId]

StageBatches(i) ==
    UNION { { [k \in 1..n |-> StageRecord(k - 1, f[k], i)] :
                f \in [1..n -> {NoFate} \cup {x \in Fates : x >= i}] } :
            n \in 0..MaxBatch }

InitStage ==
    /\ s_stage \in Stages \ {0}
    /\ s_in \in StageBatches(s_stage)
    /\ s_out = <<>>
    /\ s_pc = "called"

ParkedStage ==
    /\ s_stage = 0
    /\ s_in = <<>>
    /\ s_out = <<>>
    /\ s_pc = "parked"

\* dialogues = module.generate(**input_args) / module.evaluate(**input_args)
StageCall ==
    /\ s_pc = "called"
    /\ LET out == StageFn(s_stage, s_in, <<>>, DirsAfterConstruct)
       IN  /\ s_pc' = IF out.raised THEN "raised" ELSE "returned"
           /\ s_out' = out.batch
    /\ UNCHANGED <<s_stage, s_in>>

\* input_args = {"dialogues": dialogues}; the loop goes on to the next stage
StageNext ==
    /\ s_pc = "returned"
    /\ s_stage + 1 < NumStages
    /\ s_stage' = s_stage + 1
    /\ s_in' = s_out
    /\ s_pc' = "called"
    /\ UNCHANGED s_out

\* ===========================================================================
\* generate_sample_dialogue and the caller that queues its messages
\* ===========================================================================
\* pipelines of generate_sample_dialogue (lines 173-215): the stages of the
\* batch pipeline without the two filters
SamplePipelines ==
    SelectSeq(Pipelines, LAMBDA st : st.name \notin {"ContentQualityFilter",
                                                     "SpeechQualityFilter"})

\* Variant: the index of the stage
CurrentStepOfIndex(i) == i

\* "current_step": i + 1
CurrentStep(i) == i + 1

\* The message passed to process_callback after stage i (lines 244-259)
GeneratingMessage(i) ==
    [status       |-> "generating",
     current_step |-> CurrentStep(i),
     total_steps  |-> Len(SamplePipelines),
     message      |-> IF i + 1 < Len(SamplePipelines)
                      THEN SamplePipelines[i + 2].name ELSE "Packing up"]

\* final_message (lines 272-280)
FinalMessage ==
    [status       |-> "complete",
     current_step |-> Len(SamplePipelines),
     total_steps  |-> Len(SamplePipelines),
     message      |-> "Generation complete!"]

InitSample ==
    /\ InitPipe
    /\ process_callback \in BOOLEAN
    /\ events = <<>>
    /\ finished_fields = <<>>
    /\ sample_calls = 0
    /\ read_upto = 0
    /\ updates = <<>>

\* A call of generate_sample_dialogue up to its loop (lines 216-225).  The
\* factory may have served a call before; the caller starts a new queue
\* (sample_generation.py line 117).
SampleInvoke ==
    /\ p_pc \in {"constructed", "done", "aborted"}
    /\ sample_calls < MaxSampleCalls
    /\ sample_calls' = sample_calls + 1
    /\ p_pc' = "sample_running"
    /\ p_i' = 0
    /\ dialogues' = <<>>
    /\ finished_fields' = <<>>
    /\ last_process_type' = "content"
    /\ events' = <<>>
    /\ read_upto' = 0
    /\ updates' = <<>>
    /\ executed' = <<>>
    /\ unload_calls' = 0
    /\ init_calls' = 0
    /\ abort_cause' = "none"
    /\ UNCHANGED <<p_cfg, ckpt, start_step, llm_loaded, speech_init, tmp_dir,
                   loaded_from, start_ckpts, saved, task_report, num_dialogues,
                   prompts_edited, corrupt, process_callback>>

\* An iteration up to the message (lines 226-243): life cycle, the stage
\* call, the field appended to finished_fields.
SampleStage ==
    /\ p_pc = "sample_running"
    /\ p_i < Len(SamplePipelines)
    /\ LET st  == SamplePipelines[p_i + 1]
           idx == StageIndexOf(st.name)
           out == StageFn(idx, dialogues, p_cfg.fates, tmp_dir)
       IN  /\ Lifecycle(st)
           /\ executed' = Append(executed, idx)
           /\ IF st.ptype = "content" /\ ~llm_loaded'
              THEN \* LLM.unload deleted self.model (llm.py 91), which
                   \* generate_vllm dereferences
                   /\ p_pc' = "aborted"
                   /\ abort_cause' = "llm"
                   /\ UNCHANGED <<dialogues, finished_fields, tmp_dir>>
              ELSE IF out.raised
              THEN /\ p_pc' = "aborted"
                   /\ abort_cause' = "stage"
                   /\ UNCHANGED <<dialogues, finished_fields, tmp_dir>>
              ELSE /\ p_pc' = "sample_stage_returned"
                   /\ UNCHANGED abort_cause
                   /\ dialogues' = out.batch
                   /\ finished_fields' = Append(finished_fields, FieldOf(st.name))
                   /\ tmp_dir' = CASE idx = 9  -> DirsAfterIntelligibility(tmp_dir, p_cfg.same_tmp)
                                   [] idx = 11 -> DirsAfterSpeechQuality(tmp_dir, p_cfg.same_tmp)
                                   [] OTHER    -> tmp_dir
    /\ UNCHANGED <<p_cfg, ckpt, start_step, p_i, loaded_from, start_ckpts, saved,
                   task_report, num_dialogues, prompts_edited, corrupt,
                   process_callback, events, sample_calls, read_upto, updates>>

\* The rest of the iteration (lines 244-260): the callback, which the caller
\* set to queue.put, receives the message.  dialogues[0] raises on an empty
\* batch.
SampleCallback ==
    /\ p_pc = "sample_stage_returned"
    /\ IF process_callback
       THEN IF dialogues = <<>>
            THEN /\ p_pc' = "aborted"
                 /\ abort_cause' = "stage"
                 /\ UNCHANGED <<p_i, events>>
            ELSE /\ events' = Append(events, GeneratingMessage(p_i))
                 /\ p_pc' = "sample_running"
                 /\ p_i' = p_i + 1
                 /\ UNCHANGED abort_cause
       ELSE /\ p_pc' = "sample_running"
            /\ p_i' = p_i + 1
            /\ UNCHANGED <<events, abort_cause>>
    /\ UNCHANGED <<p_cfg, ckpt, start_step, dialogues, last_process_type,
                   llm_loaded, speech_init, tmp_dir, executed, loaded_from,
                   start_ckpts, saved, task_report, num_dialogues,
                   prompts_edited, corrupt, unload_calls, init_calls,
                   process_callback, finished_fields, sample_calls, read_upto, updates>>

\* After the loop (lines 262-282): ids, one file per record, the final
\* message returned with dialogues[0].
SampleFinish ==
    /\ p_pc = "sample_running"
    /\ p_i = Len(SamplePipelines)
    /\ IF dialogues = <<>>
       THEN /\ p_pc' = "aborted"
            /\ abort_cause' = "stage"
            /\ UNCHANGED <<dialogues, saved>>
       ELSE /\ p_pc' = "sample_returned"
            /\ dialogues' = AssignIds(dialogues)
            /\ saved' = PutAll(saved, [k \in 0..(Len(dialogues) - 1) |->
                                          AssignIds(dialogues)[k + 1]])
            /\ UNCHANGED abort_cause
    /\ UNCHANGED <<p_cfg, ckpt, start_step, p_i, last_process_type, llm_loaded,
                   speech_init, tmp_dir, executed, loaded_from, start_ckpts,
                   task_report, num_dialogues, prompts_edited, corrupt,
                   unload_calls, init_calls, samplevars>>

\* run_generation after the call returned (sample_generation.py 81-83): a
\* caller that passed queue.put as the callback puts the final message on
\* the same queue.
RunGenerationEnds ==
    /\ p_pc = "sample_returned"
    /\ events' = IF process_callback THEN Append(events, FinalMessage)
                 ELSE events
    /\ p_pc' = "done"
    /\ UNCHANGED <<p_cfg, ckpt, start_step, p_i, dialogues, last_process_type,
                   llm_loaded, speech_init, tmp_dir, executed, loaded_from,
                   start_ckpts, saved, task_report, num_dialogues,
                   prompts_edited, corrupt, abort_cause, unload_calls,
                   init_calls, process_callback, finished_fields, sample_calls, read_upto, updates>>

\* The list a message carries under "finished_fields" is the list object
\* the run keeps appending to (line 256 passes the list itself); reading it
\* gives what the list holds at the time of the reading.
FinishedFieldsOf(msg) == finished_fields

\* SDFApp.get_progress_updates on a timer tick (sample_generation.py
\* 207-244) in the observer thread: get_updates takes every message off the
\* queue, and the fields of the messages are read.
GetProgressUpdates ==
    /\ p_pc \in {"sample_running", "sample_stage_returned", "sample_returned",
                 "done", "aborted"}
    /\ read_upto < Len(events)
    /\ updates' = [k \in 1..(Len(events) - read_upto) |->
                      [status          |-> events[read_upto + k].status,
                       current_step    |-> events[read_upto + k].current_step,
                       finished_fields |-> FinishedFieldsOf(events[read_upto + k])]]
    /\ read_upto' = Len(events)
    /\ UNCHANGED <<pipevars, process_callback, events, finished_fields,
                   sample_calls>>

\* ===========================================================================
\* The TTS worker process: CosyVoiceTTS.generate on one input snapshot
\* ===========================================================================
\* What synthesize_one_dialogue meets in a record: a speaker id without a
\* voice profile (line 215), an utterance without text (217), an exception
\* of the model's inference (caught, 281-285), or none of these.
SynthOutcomes == {"ok", "no_voice", "empty_text", "tts_error"}

TtsRecord(k, o) == [src |-> k, synth |-> o, fields |-> UpstreamFields(8)]

TtsShards ==
    UNION { { [k \in 1..n |-> TtsRecord(k - 1, o[k])] : o \in [1..n -> SynthOutcomes] } :
            n \in 0..MaxBatch }

\* synthesize_one_dialogue: the audio, or None
SynthesizeOneDialogue(d) == IF d.synth = "ok" THEN "audio" ELSE None

\* Variant: the synthesised record put in front
SuccessedPrepend(acc, d) == <<SetField(d, "dialogue_audio")>> \o acc

\* dialogues[i].dialogue_audio = synthesized_utterance;
\* successed_dialogues.append(dialogues[i])
SuccessedAppend(acc, d) == Append(acc, SetField(d, "dialogue_audio"))

InitTts ==
    /\ t_pc = "start"
    /\ t_in \in TtsShards
    /\ t_i = 0
    /\ successed_dialogues = <<>>
    /\ t_written = FALSE
    /\ t_out = <<>>

ParkedTts ==
    /\ t_pc = "parked"
    /\ t_in = <<>>
    /\ t_i = 0
    /\ successed_dialogues = <<>>
    /\ t_written = FALSE
    /\ t_out = <<>>

\* lines 309-315: load the input snapshot; nothing is done for an empty one
TtsLoad ==
    /\ t_pc = "start"
    /\ t_pc' = IF t_in = <<>> THEN "returned" ELSE "loop"
    /\ UNCHANGED <<t_in, t_i, successed_dialogues, t_written, t_out>>

\* One iteration of the loop (lines 316-323)
TtsSynthesize ==
    /\ t_pc = "loop"
    /\ t_i < Len(t_in)
    /\ successed_dialogues' =
          IF SynthesizeOneDialogue(t_in[t_i + 1]) = None
          THEN successed_dialogues
          ELSE SuccessedAppend(successed_dialogues, t_in[t_i + 1])
    /\ t_i' = t_i + 1
    /\ UNCHANGED <<t_pc, t_in, t_written, t_out>>

\* line 324: the output snapshot is written after the loop
TtsSave ==
    /\ t_pc = "loop"
    /\ t_i = Len(t_in)
    /\ t_written' = TRUE
    /\ t_out' = successed_dialogues
    /\ t_pc' = "saved"
    /\ UNCHANGED <<t_in, t_i, successed_dialogues>>

\* ===========================================================================
\* Specifications
\* ===========================================================================
ParkedSample ==
    /\ process_callback = FALSE
    /\ events = <<>>
    /\ finished_fields = <<>>
    /\ sample_calls = 0
    /\ read_upto = 0
    /\ updates = <<>>

Init == InitPipe /\ ParkedSample /\ ParkedGen /\ ParkedDisp /\ ParkedStage /\ ParkedTts
PipeOnly == UNCHANGED <<genvars, scenvars, dispvars, samplevars, stagevars, ttsvars>>
Next ==
    \/ ConstructFactory /\ PipeOnly
    \/ Invoke /\ PipeOnly
    \/ RunStage /\ PipeOnly
    \/ RunStageFails /\ PipeOnly
    \/ Finish /\ PipeOnly
    \/ Crash /\ PipeOnly
    \/ Exit /\ PipeOnly
    \/ EditPrompts /\ PipeOnly
    \/ CorruptCheckpoint /\ PipeOnly
Spec == Init /\ [][Next]_vars

InitG == InitGen /\ ParkedDisp /\ ParkedPipe /\ ParkedSample /\ ParkedStage /\ ParkedTts
GenOnly == UNCHANGED <<dispvars, pipevars, samplevars, stagevars, ttsvars>>
NextG ==
    \/ Generate /\ UNCHANGED scenvars /\ GenOnly
    \/ GenerateApiStep /\ UNCHANGED scenvars /\ GenOnly
    \/ GenerateApiReturn /\ UNCHANGED scenvars /\ GenOnly
    \/ VllmNoSchema /\ UNCHANGED scenvars /\ GenOnly
    \/ VllmUnguided /\ UNCHANGED scenvars /\ GenOnly
    \/ VllmGuided /\ UNCHANGED scenvars /\ GenOnly
\* ScenarioGenerator on top of generate
NextSc ==
    \/ NextG
    \/ GenerateScenarioWithUserInput /\ GenOnly
SpecScen == InitG /\ [][NextSc]_vars

SpecGen == InitG /\ [][NextG]_vars

InitD == InitDisp /\ ParkedGen /\ ParkedPipe /\ ParkedSample /\ ParkedStage /\ ParkedTts
DispOnly == UNCHANGED <<genvars, scenvars, pipevars, samplevars, stagevars, ttsvars>>
NextD ==
    \/ EvaluateBegin /\ DispOnly
    \/ Launch /\ DispOnly
    \/ (\E i \in Shards : WorkerExit(i)) /\ DispOnly
    \/ Poll /\ DispOnly
    \/ Merge /\ DispOnly
    \/ Cleanup /\ DispOnly
    \/ EvaluateEnd /\ DispOnly
    \/ Construct /\ DispOnly
SpecDisp == InitD /\ [][NextD]_vars

\* The dispatch up to the launch, on larger batches
PlanBegin == EvaluateBeginWith(MaxPlanItems)

NextP ==
    \/ PlanBegin /\ DispOnly
    \/ Launch /\ DispOnly
SpecPlan == InitD /\ [][NextP]_vars

\* The dispatcher's thread is scheduled; nothing makes a worker end.
SpecDispLive == SpecDisp /\ WF_vars(Poll /\ DispOnly)

InitSm == InitSample /\ ParkedGen /\ ParkedDisp /\ ParkedStage /\ ParkedTts
SampleOnly == UNCHANGED <<genvars, scenvars, dispvars, stagevars, ttsvars>>
NextSm ==
    \/ ConstructFactory /\ UNCHANGED samplevars /\ SampleOnly
    \/ SampleInvoke /\ SampleOnly
    \/ SampleStage /\ SampleOnly
    \/ SampleCallback /\ SampleOnly
    \/ SampleFinish /\ SampleOnly
    \/ RunGenerationEnds /\ SampleOnly
SpecSample == InitSm /\ [][NextSm]_vars

\* The application: one prompt, queue.put as the callback, and the timer
\* that reads the queue while the run goes on (sample_generation.py 72-83)
InitOb ==
    /\ InitSm
    /\ process_callback
    /\ Len(p_cfg.fates) = 1
NextOb ==
    \/ NextSm
    \/ GetProgressUpdates /\ SampleOnly
SpecObserve == InitOb /\ [][NextOb]_vars

InitT == InitTts /\ ParkedGen /\ ParkedDisp /\ ParkedPipe /\ ParkedSample /\ ParkedStage
TtsOnly == UNCHANGED <<genvars, scenvars, dispvars, pipevars, samplevars, stagevars>>
NextT ==
    \/ TtsLoad /\ TtsOnly
    \/ TtsSynthesize /\ TtsOnly
    \/ TtsSave /\ TtsOnly
SpecTts == InitT /\ [][NextT]_vars

InitS == InitStage /\ ParkedGen /\ ParkedDisp /\ ParkedPipe /\ ParkedSample /\ ParkedTts
StageOnly == UNCHANGED <<genvars, scenvars, dispvars, pipevars, samplevars, ttsvars>>
NextS ==
    \/ StageCall /\ StageOnly
    \/ StageNext /\ StageOnly
SpecStage == InitS /\ [][NextS]_vars


\* ===========================================================================
\* Properties
\* ===========================================================================
SetMax(S) == CHOOSE x \in S : \A y \in S : y <= x

\* Highest stage index with a checkpoint when the invocation began; -1: none
HighestAtStart == IF start_ckpts = {} THEN -1 ELSE SetMax(start_ckpts)

\* C1: an invocation that finds checkpoints 0..k loads the batch of the
\* highest-indexed one, k, and executes the stages k+1, k+2, ... in order and
\* nothing else (all of them up to the last when it completes); without a
\* checkpoint it starts at stage 0.
ResumeRunsRemainingStages ==
    p_pc \in {"running", "done", "aborted"} =>
        /\ start_ckpts = 0..HighestAtStart
        /\ loaded_from = HighestAtStart
        /\ start_step = HighestAtStart + 1
        /\ executed = [j \in 1..Len(executed) |-> HighestAtStart + j]
        /\ \A j \in 1..Len(executed) : executed[j] > HighestAtStart
        /\ (p_pc = "done" => Len(executed) = NumStages - (HighestAtStart + 1))
        /\ (p_pc = "running" /\ executed = <<>> /\ HighestAtStart >= 0
                => dialogues = ckpt[CheckpointName(HighestAtStart)])
        /\ (p_pc = "running" /\ executed = <<>> /\ HighestAtStart < 0
                => p_i = 0 /\ dialogues = <<>>)

\* A run resumed from checkpoint 10, where the decimal order of the file
\* names and their order as strings differ, has completed.
ResumedFromTenDone ==
    /\ p_pc = "done"
    /\ loaded_from = 10
    /\ executed = <<11, 12>>

\* The run no crash interrupts: the stages applied one after the other to the
\* caller's parameters.
RECURSIVE RunFrom(_, _, _)
RunFrom(i, ds, fates) ==
    IF i >= NumStages THEN Returned(ds)
    ELSE LET o == StageFn(i, ds, fates, DirsAfterConstruct)
         IN  IF o.raised THEN Raised ELSE RunFrom(i + 1, o.batch, fates)

LlmUnloadedBeforeSpeech ==
    (p_cfg.lazy_load /\ speech_init # {}) => ~llm_loaded

Indices == 0..(N - 1)

\* C4: with a schema and fast mode off, every prompt is submitted to guided
\* decoding and every prompt whose guided output validates is a success.
NonFastAllGuided ==
    (g_pc = "done" /\ g_cfg.schema /\ ~g_cfg.fast) =>
        /\ Range(guided_sub) = Indices
        /\ \A i \in Indices :
              g_cfg.guided[i + 1] = "valid" => i \in Range(success_indices)

\* C5: whenever generate returns, success_indices and failed_indices
\* partition 0..n-1, success_indices is strictly increasing, and responses[j]
\* is the output of prompt success_indices[j].
SuccessFailedPartition ==
    g_pc = "done" =>
        /\ Range(success_indices) \cap Range(failed_indices) = {}
        /\ Range(success_indices) \cup Range(failed_indices) = Indices
        /\ \A j \in 1..(Len(success_indices) - 1) :
              success_indices[j] < success_indices[j + 1]
        /\ Len(responses) = Len(success_indices)
        /\ \A j \in 1..Len(responses) : responses[j][1] = success_indices[j]

\* generate_vllm returned a guided success ahead of an unguided one, and a
\* failure.
MergedGuidedBeforeUnguided ==
    /\ g_pc = "done"
    /\ g_cfg.mode = "vllm"
    /\ failed_indices # <<>>
    /\ Len(responses) >= 2
    /\ responses[1][2] = "guided"
    /\ responses[2][2] = "unguided"

\* C6: with fast mode on and a schema, guided decoding is given exactly the
\* prompts whose unguided output failed validation, each once.
FastModeGuidedExactlyFailed ==
    (g_cfg.schema /\ g_cfg.fast) =>
        /\ \A i \in Range(guided_sub) : g_cfg.unguided[i + 1] = "invalid"
        /\ (g_pc = "done" =>
              guided_sub = SelectSeq([k \in 1..N |-> k - 1],
                                     LAMBDA i : g_cfg.unguided[i + 1] = "invalid"))

\* Two of three unguided outputs failed validation and the call returned.
TwoOfThreeGuided ==
    /\ g_pc = "done"
    /\ g_cfg.schema /\ g_cfg.fast
    /\ N = 3
    /\ Len(guided_sub) = 2

\* A request for prompt i raised: i was submitted to a pass whose outcome
\* for it is "exc".
RequestRaised(i) ==
    \/ i \in Range(unguided_sub) /\ g_cfg.unguided[i + 1] = "exc"
    \/ i \in Range(guided_sub) /\ g_cfg.guided[i + 1] = "exc"

\* C7: in API mode a request that raises makes its prompt a failed index and
\* generate does not raise.
TransportFailureIsItemFailure ==
    g_cfg.mode \in ApiModes =>
        /\ g_pc # "raised"
        /\ (g_pc = "done" =>
              \A i \in Indices : RequestRaised(i) => i \in Range(failed_indices))

ChunksValid == d_pc \in {"prepared", "polling", "merging", "merged", "done"}

\* C8: the chunks of a non-empty batch are non-empty, their concatenation in
\* shard order is the batch, and there are at most
\* min(gpuCount * workersPerGpu, n) of them.
ChunksPartitionBatch ==
    ChunksValid =>
        /\ \A k \in 1..Len(dialogue_chunks) : dialogue_chunks[k] # <<>>
        /\ Flatten(dialogue_chunks) = d_dialogues
        /\ Len(dialogue_chunks) <=
              Min(d_cfg.n_gpus * d_cfg.num_workers, Len(d_dialogues))

\* Five items on four slots: three chunks, the last one smaller.
FiveItemsThreeChunks ==
    /\ d_pc = "prepared"
    /\ Len(d_dialogues) = 5
    /\ d_cfg.n_gpus * d_cfg.num_workers = 4
    /\ Len(dialogue_chunks) = 3
    /\ Len(dialogue_chunks[3]) = 1

\* C9: the chunk size is ceil(len(items) / totalSlots) with
\* totalSlots = min(gpuCount * workersPerGpu, len(items)).
ChunkSizeIsCeil ==
    ChunksValid =>
        chunk_size = CeilDiv(Len(d_dialogues),
                             Min(d_cfg.n_gpus * d_cfg.num_workers, Len(d_dialogues)))

\* C10: evaluate returns a merged batch only if every worker process exited
\* with status 0.
NonZeroExitIsFatal ==
    d_pc \in {"merged", "done"} => \A i \in DOMAIN d_status : d_status[i] = 0


\* C11: the output snapshots are read only when every worker process has
\* ended, and the merged batch is the concatenation of the snapshots in
\* shard-index order whatever the order the processes ended in; when every
\* worker succeeded it is the evaluated input batch in its order.
MergeInShardOrder ==
    /\ d_pc \in {"merging", "merged", "done"} =>
          /\ DOMAIN d_status = Shards
          /\ Range(exit_order) = Shards
    /\ d_pc = "merged" =>
          /\ final_dialogues =
                Flatten([k \in 1..Len(dialogue_chunks) |-> d_files[OutputFile(k - 1)]])
          /\ ((\A i \in Shards : d_status[i] = 0)
                => final_dialogues = WorkerOutput(d_dialogues, d_epoch))
    /\ d_pc = "polling" => final_dialogues = <<>>

\* Three shards whose processes ended last-first have been merged.
MergedAfterReverseCompletion ==
    /\ d_pc = "merged"
    /\ exit_order = <<2, 1, 0>>
    /\ \A i \in Shards : d_status[i] = 0

SrcSeq(ds) == [k \in 1..Len(ds) |-> ds[k].src]

RECURSIVE IsSubseq(_, _)
IsSubseq(a, b) ==
    IF a = <<>> THEN TRUE
    ELSE IF b = <<>> THEN FALSE
    ELSE IF Head(a) = Head(b) THEN IsSubseq(Tail(a), Tail(b))
    ELSE IsSubseq(a, Tail(b))

GeneratorKeepsSucceeded ==
    (s_pc = "returned" /\ s_stage \in {1, 2, 3}) =>
        SrcSeq(s_out) = SrcSeq(SelectSeq(s_in, LAMBDA d : d.fate # s_stage))

\* C14: no stage raises because the batch it is given is empty: a run whose
\* evaluator or filter stage returned an empty batch goes on to the end.
EmptyBatchAccepted ==
    ~ /\ p_pc = "aborted"
      /\ abort_cause = "stage"
      /\ p_i >= 5
      /\ dialogues = <<>>

\* C15: every record passed to a stage has the fields that stage reads.
StageInputsComplete ==
    (p_pc = "running" /\ p_i < NumStages) =>
        \A k \in 1..Len(dialogues) : HasAll(dialogues[k], StageReads(p_i))

\* C16: a task report never holds more generated than planned dialogues, and
\* the generated number is the length of the final batch.
ReportWithinPlan ==
    /\ task_report # <<>> =>
          task_report[1].num_generated_dialogues <= task_report[1].num_planned_dialogues
    /\ p_pc = "done" =>
          task_report[1].num_generated_dialogues = Len(dialogues)

\* C17: when stage i+1 is about to start, the checkpoint of stage i exists
\* and holds exactly the batch stage i+1 is given (the batch stage i
\* returned); one stage is executed at a time, in index order.
CheckpointBeforeNextStage ==
    (p_pc = "running" /\ p_i > 0) =>
        /\ CheckpointName(p_i - 1) \in DOMAIN ckpt
        /\ ckpt[CheckpointName(p_i - 1)] = dialogues
        /\ \A j \in 1..Len(executed) : executed[j] = start_step + j - 1
        /\ p_i = start_step + Len(executed)

\* Stage 7 has just run in this invocation; stage 8 is next.
SpeechStagesNext ==
    /\ p_pc = "running"
    /\ p_i = 8
    /\ executed # <<>>
    /\ dialogues # <<>>

\* C18: while the highest-indexed checkpoint cannot be unpickled, an
\* invocation raises before any stage: it executes nothing, loads no other
\* checkpoint and writes nothing.
UnreadableCheckpointIsFatal ==
    /\ corrupt # {} => p_pc \in {"off", "constructed", "load_failed"}
    /\ p_pc = "load_failed" =>
          /\ corrupt = {LastStepFile(DOMAIN ckpt)}
          /\ executed = <<>>
          /\ loaded_from = -1
          /\ dialogues = <<>>
          /\ start_ckpts = {StageIndexOf(f[4]) : f \in DOMAIN ckpt}

\* An invocation found checkpoints 0..3 with the last one unreadable.
LoadFailedAtThree ==
    /\ p_pc = "load_failed"
    /\ start_ckpts = 0..3

\* The stage the next invocation would start at
NextStartStep ==
    IF DOMAIN ckpt = {} THEN 0
    ELSE ResumeStep(ParseInt(LastStepFile(DOMAIN ckpt)[3]))

\* C19: when a stage raises the run stops there: the failing stage has no
\* checkpoint, the checkpoints are those of the stages before it, the step
\* writes no checkpoint, record file or report, and the next invocation
\* starts at the failing stage.
StageFailureAborts ==
    /\ [](p_pc = "aborted" =>
            /\ executed # <<>>
            /\ executed[Len(executed)] = p_i
            /\ CheckpointName(p_i) \notin DOMAIN ckpt
            /\ {StageIndexOf(f[4]) : f \in DOMAIN ckpt} = 0..(p_i - 1)
            /\ NextStartStep = p_i)
    /\ [][p_pc' = "aborted" =>
            /\ ckpt' = ckpt
            /\ saved' = saved
            /\ task_report' = task_report]_vars
    /\ [][p_pc = "aborted" => p_pc' = "off"]_vars

\* SpeechQualityFilter raised in a run that had been resumed.
FilterRaisedAfterResume ==
    /\ p_pc = "aborted"
    /\ abort_cause = "stage"
    /\ p_i = 12
    /\ loaded_from >= 0

\* C20: when the run has completed, the record at position N of the final
\* batch has dialogue_id N and is the content of file dialogue_N, and the
\* record files are exactly those of the positions of the final batch.
IdsAndFilesByPosition ==
    p_pc = "done" =>
        /\ DOMAIN saved = 0..(Len(dialogues) - 1)
        /\ \A n \in 0..(Len(dialogues) - 1) :
              /\ ParseInt(dialogues[n + 1].dialogue_id) = n
              /\ dialogues[n + 1].dialogue_id = Digits(n)
              /\ saved[n] = dialogues[n + 1]

\* The only surviving record comes from the second prompt.
SecondPromptRecordSaved ==
    /\ p_pc = "done"
    /\ Len(dialogues) = 1
    /\ dialogues[1].src = 1

\* C21: when a dispatch has returned normally, none of the input and output
\* snapshot files of its shards exists any more, and neither does the
\* temporary working directory.
SnapshotsAndDirRemoved ==
    d_pc = "done" =>
        /\ ~d_dir
        /\ \A i \in Shards : /\ InputFile(i) \notin DOMAIN d_files
                             /\ OutputFile(i) \notin DOMAIN d_files

\* A dispatch of three shards has returned.
ThreeShardDispatchReturned ==
    /\ d_pc = "done"
    /\ Len(dialogue_chunks) = 3
    /\ Len(final_dialogues) = Len(d_dialogues)

\* The paths of the commands are pairwise distinct.
PathsDistinct ==
    \A j, k \in 1..Len(commands) :
        /\ commands[j].input # commands[k].output
        /\ j # k => /\ commands[j].input # commands[k].input
                    /\ commands[j].output # commands[k].output

\* C22: shard i is launched on device i mod n_gpus, on its own input and
\* output paths; 10 items on 2 GPUs with 2 workers each are launched as
\* shards of 3, 3, 3 and 1 items on devices 0, 1, 0, 1.
ShardDeviceAndPaths ==
    d_pc = "polling" =>
        /\ Len(commands) = Len(dialogue_chunks)
        /\ \A i \in Shards : commands[i + 1].device = i % d_cfg.n_gpus
        /\ PathsDistinct
        /\ (d_cfg.n_gpus = 2 /\ d_cfg.num_workers = 2 /\ Len(d_dialogues) = 10)
              => /\ [k \in 1..Len(dialogue_chunks) |-> Len(dialogue_chunks[k])]
                        = <<3, 3, 3, 1>>
                 /\ [k \in 1..Len(commands) |-> commands[k].device]
                        = <<0, 1, 0, 1>>

\* Ten items have been launched on 2 GPUs with 2 workers each.
TenItemsFourSlotsLaunched ==
    /\ d_pc = "polling"
    /\ d_cfg.n_gpus = 2
    /\ d_cfg.num_workers = 2
    /\ Len(d_dialogues) = 10
    /\ Len(commands) = 4

\* C29: with one worker per GPU, no two shards of a dispatch are launched on
\* the same device.
OneWorkerPerGpuDistinctDevices ==
    (d_pc = "polling" /\ d_cfg.num_workers = 1 /\ d_cfg.n_gpus >= 1) =>
        \A j, k \in 1..Len(commands) :
            j # k => commands[j].device # commands[k].device

\* Seven items have been launched on 2 GPUs with one worker each.
SevenItemsTwoGpusLaunched ==
    /\ d_pc = "polling"
    /\ d_cfg.num_workers = 1
    /\ d_cfg.n_gpus = 2
    /\ Len(d_dialogues) = 7
    /\ Len(commands) = 2

\* C30: the dispatch leaves its wait loop only when every worker process has
\* ended, and once they all have ended it does go on to the merge.
WaitEndsIffAllWorkersExit ==
    /\ [](d_pc \in {"merging", "merged", "done"} => DOMAIN d_status = Shards)
    /\ [][d_pc = "polling" /\ d_pc' # "polling"
             => d_pc' = "merging" /\ DOMAIN d_status = Shards]_vars
    /\ ((d_pc = "polling" /\ DOMAIN d_status = Shards) ~> d_pc = "merging")

\* The wait of a two-shard dispatch is over although one worker had failed.
WaitOverAfterTwoExits ==
    /\ d_pc = "merging"
    /\ Len(dialogue_chunks) = 2
    /\ \E i \in Shards : d_status[i] = 1

\* C23: without lazy loading every module is initialized when the factory
\* is constructed, and a run neither unloads the LLM nor initializes a
\* module.
EagerFactoryNeverCycles ==
    (~p_cfg.lazy_load /\ p_pc \in {"constructed", "running", "done",
                                   "aborted", "load_failed"}) =>
        /\ llm_loaded
        /\ speech_init = LazyModules
        /\ unload_calls = 0
        /\ init_calls = 0

\* A run without lazy loading has gone through the speech stages.
EagerRunReachedSpeechQuality ==
    /\ ~p_cfg.lazy_load
    /\ p_pc \in {"running", "done"}
    /\ Len(executed) >= 12
    /\ executed[Len(executed)] >= 11

\* C24: a generate call without a schema returns the raw text of every
\* prompt in input order, with every index successful and none failed, and
\* issues no guided request.
NoSchemaReturnsEveryRawText ==
    (g_pc = "done" /\ ~g_cfg.schema) =>
        /\ responses = [k \in 1..N |-> Parsed(k - 1, "raw")]
        /\ success_indices = [k \in 1..N |-> k - 1]
        /\ failed_indices = <<>>
        /\ guided_sub = <<>>

Count(s, x) == Cardinality({k \in 1..Len(s) : s[k] = x})

\* C25: within one generate call a prompt is submitted at most once
\* unguided and at most once guided, and a prompt whose guided output does
\* not validate is reported in failed_indices.
AtMostOneGuidedRetry ==
    /\ \A i \in 0..(N - 1) : /\ Count(unguided_sub, i) <= 1
                             /\ Count(guided_sub, i) <= 1
    /\ (g_pc = "done" /\ g_cfg.schema) =>
          \A i \in Range(guided_sub) :
              g_cfg.guided[i + 1] # "valid" =>
                  /\ i \in Range(failed_indices)
                  /\ i \notin Range(success_indices)

\* A prompt failed both passes while another succeeded in the guided one.
FailedBothPasses ==
    /\ g_pc = "done"
    /\ g_cfg.schema
    /\ \E i \in Range(failed_indices) :
          i \in Range(unguided_sub) /\ i \in Range(guided_sub)
    /\ \E j \in Range(success_indices) : j \in Range(guided_sub)

\* The output fields of the stages from i on
FieldsFrom(i) ==
    {FieldOf(Pipelines[j + 1].name) : j \in i..(NumStages - 1)} \ {"none"}

\* Record b is record a with at most field f added by stage i.
SameButField(a, b, f, i) ==
    /\ b.src = a.src
    /\ b.fate = a.fate
    /\ b.dialogue_id = a.dialogue_id
    /\ a.fields \subseteq b.fields
    /\ b.fields \subseteq a.fields \cup ({f} \ {"none"})
    /\ (i # 1 => b.meta_from = a.meta_from)

\* C26: a stage adds to a record nothing but its own output field, which
\* the record did not hold before; the final step sets nothing but
\* dialogue_id; a resumed run starts from records exactly as they were saved.
StageWritesOwnFieldOnce ==
    /\ [](p_pc = "running" =>
             \A k \in 1..Len(dialogues) :
                 /\ dialogues[k].fields \cap FieldsFrom(p_i) = {}
                 /\ dialogues[k].dialogue_id = NoId)
    /\ [][(p_pc = "running" /\ p_pc' = "running" /\ dialogues' # dialogues) =>
             IF p_i = 0
             THEN \A k \in 1..Len(dialogues') :
                      /\ dialogues'[k].fields = {"scenario"}
                      /\ dialogues'[k].dialogue_id = NoId
             ELSE \A k \in 1..Len(dialogues') : \E j \in 1..Len(dialogues) :
                      SameButField(dialogues[j], dialogues'[k],
                                   FieldOf(Pipelines[p_i + 1].name), p_i)]_vars
    /\ [][(p_pc = "running" /\ p_pc' = "done") =>
             /\ Len(dialogues') = Len(dialogues)
             /\ \A k \in 1..Len(dialogues) :
                    [dialogues'[k] EXCEPT !.dialogue_id = NoId] = dialogues[k]]_vars
    /\ [][(p_pc = "constructed" /\ p_pc' = "running" /\ start_step' > 0) =>
             \E f \in DOMAIN ckpt : dialogues' = ckpt[f]]_vars

\* A run resumed after the TTS stage has finished with a complete record.
ResumedAtNineFinished ==
    /\ p_pc = "done"
    /\ start_step = 9
    /\ \E k \in 1..Len(dialogues) :
          /\ dialogues[k].dialogue_id # NoId
          /\ "speech_quality_evaluation" \in dialogues[k].fields
          /\ "scenario" \in dialogues[k].fields

\* C27: no step removes a checkpoint file or changes the content of one
\* that exists.
CheckpointsNeverDeletedOrRewritten ==
    [][\A f \in DOMAIN ckpt : f \in DOMAIN ckpt' /\ ckpt'[f] = ckpt[f]]_vars

\* A resumed run has written the checkpoint of stage 5 next to the older ones.
ResumedRunAddedCheckpoint ==
    /\ p_pc = "running"
    /\ start_step = 3
    /\ p_i = 6
    /\ \A i \in 0..5 : CheckpointName(i) \in DOMAIN ckpt

\* The messages of the stages 0..n-1, in stage order
StageMessages(n) ==
    [k \in 1..n |-> [status       |-> "generating",
                     current_step |-> k,
                     total_steps  |-> 11,
                     message      |-> IF k < 11 THEN SamplePipelines[k + 1].name
                                      ELSE "Packing up"]]

\* C28: with a callback, the queue holds one message per stage that has
\* returned, in stage order, with current_step = stage index + 1 and
\* total_steps = 11; the message of stage i is on the queue before stage
\* i + 1 is called; the complete message follows the message of the last
\* stage and nothing else.  A call that raises leaves the messages of the
\* stages before the one it raised in.
OneEventPerStageInOrder ==
    process_callback =>
        /\ p_pc = "sample_running" =>
              /\ events = StageMessages(p_i)
              /\ Len(executed) = p_i
        /\ p_pc = "sample_stage_returned" =>
              /\ events = StageMessages(p_i)
              /\ Len(executed) = p_i + 1
        /\ p_pc = "sample_returned" => events = StageMessages(11)
        /\ (p_pc = "done" /\ sample_calls > 0) =>
              events = Append(StageMessages(11), FinalMessage)
        /\ (p_pc = "aborted" /\ sample_calls > 0) =>
              events = StageMessages(Len(executed) - 1)

\* The caller's queue holds the eleven stage messages and the final one.
SampleCompleteQueued ==
    /\ process_callback
    /\ p_pc = "done"
    /\ Len(events) = 12
    /\ events[12].status = "complete"

\* C31: the custom prompt and the language attached to the j-th returned
\* scenario are those of the prompt that produced it, success_indices[j].
ScenarioCarriesItsOwnPrompt ==
    g_pc = "scenarios" =>
        /\ Len(scenarios) = Len(responses)
        /\ \A j \in 1..Len(scenarios) :
              /\ scenarios[j].scenario = responses[j]
              /\ scenarios[j].custom_prompt = success_indices[j]
              /\ scenarios[j].dialogue_language = success_indices[j]

\* C32: a content stage called on n records issues one prompt per record and
\* writes into each record the response to the prompt built from that same
\* record: the records returned are the input records whose generation
\* succeeded, in order, and the value a record received was generated from it.
ContentStageValueFromOwnRecord ==
    (s_pc = "returned" /\ s_stage \in 1..6) =>
        /\ SrcSeq(s_out) = SrcSeq(SelectSeq(s_in, LAMBDA d : d.fate # s_stage))
        /\ \A k \in 1..Len(s_out) :
              /\ FieldOf(Pipelines[s_stage + 1].name) \in s_out[k].fields
              /\ IF s_stage = 1
                 THEN s_out[k].meta_from = {s_out[k].src}
                 ELSE \E j \in 1..Len(s_in) :
                          /\ s_in[j].src = s_out[k].src
                          /\ s_in[j].meta_from = s_out[k].meta_from

\* C33: when a content stage is called the LLM is loaded, in every call
\* made on one factory.
LlmLoadedWhenContentStageRuns ==
    (sample_calls > 0 /\ executed # <<>>
        /\ Pipelines[executed[Len(executed)] + 1].ptype = "content")
    => llm_loaded

\* C34: an evaluate call that has shards to write finds its temporary
\* working directory in place; no call raises for want of it.
TempDirExistsWhenInvoked ==
    ~ /\ d_pc = "raised"
      /\ chunk_size > 0
      /\ ~d_dir

\* C35: every record of a merged result was written by a worker of the
\* dispatch that merged it.
MergedRecordsOfThisDispatch ==
    d_pc \in {"merged", "done"} =>
        \A k \in 1..Len(final_dialogues) : final_dialogues[k][2] = d_epoch

\* C36: whenever the observer reads the message of stage i, the
\* finished_fields it carries are the output fields of stages 0..i.
FinishedFieldsAsEmitted ==
    \A k \in 1..Len(updates) :
        updates[k].status = "generating" =>
            updates[k].finished_fields =
                [j \in 1..updates[k].current_step |->
                    FieldOf(SamplePipelines[j].name)]

PtypeOf(i) == Pipelines[i + 1].ptype

\* C37: a run with lazy loading calls the LLM's unload at most once, when it
\* first goes from a content stage to a speech stage; the stages of a run go
\* content first, speech after, so no content stage follows the unload.
UnloadAtMostOncePerRun ==
    (p_cfg.lazy_load /\ p_pc \in {"running", "done", "aborted"}) =>
        /\ unload_calls <= 1
        /\ \A j, k \in 1..Len(executed) :
              (j < k /\ PtypeOf(executed[j]) = "speech")
                  => PtypeOf(executed[k]) = "speech"
        /\ unload_calls = 1 <=>
              /\ \E k \in 1..Len(executed) : PtypeOf(executed[k]) = "speech"
              /\ start_step = 0 \/ PtypeOf(start_step - 1) = "content"
        /\ unload_calls = 1 => ~llm_loaded

\* A fresh lazy run has finished after one unload.
LazyRunFinishedAfterOneUnload ==
    /\ p_cfg.lazy_load
    /\ p_pc = "done"
    /\ start_step = 0
    /\ unload_calls = 1
    /\ Len(executed) = NumStages

====
